---- MODULE Spec2Model ----
(***************************************************************************)
(* Model of hook0's delivery worker loop (output-worker/src/main.rs) and   *)
(* of the event ingestion handler (api/src/handlers/events.rs), both       *)
(* running against one transactional relational store.                     *)
(*                                                                         *)
(* Time is the store clock in whole seconds.  NULL is the SQL NULL of a    *)
(* nullable numeric column (timestamps and ids are >= 0).                  *)
(***************************************************************************)
EXTENDS Integers, Sequences, FiniteSets, TLC

\* ---------------------------------------------------------------- bounds
\* Number of worker processes running against the store.
NumWorkers == 2
\* Number of ingest calls the API serves.
NumCalls == 2
\* Size of the request_attempt table (rows committed or being inserted).
MaxAttempts == 3
\* The clock stops single-second ticks here; it still jumps to due dates.
MaxClock == 2

\* ------------------------------------------------------ program constants
MINIMUM_RETRY_DELAY == 5
MAXIMUM_RETRY_DELAY == 300
I16_MAX == 32767
I16_MODULUS == 65536

NULL == -1
NoError == "NULL"

Workers == 1..NumWorkers
AttemptIds == 1..MaxAttempts

\* ------------------------------------------------------------------ state
VARIABLES
    now,          \* the store clock, statement_timestamp()
    attempts,     \* committed rows of webhook.request_attempt, by id
    responses,    \* committed rows of webhook.response, by id
    pc,           \* each worker's position in main()
    tx,           \* each worker's open transaction: locks and pending writes
    attempt,      \* each worker's local `next_attempt` / `attempt`
    response,     \* each worker's local `response`
    response_id,  \* each worker's local `response_id`
    retry_in,     \* each worker's local `retry_in`
    next_retry_count,  \* each worker's local `next_retry_count`
    events,       \* committed rows of event.event, in insertion order
    secrets,      \* rows of event.application_secret, by token
    ipc,          \* each ingest call's position in ingest()
    body,         \* each ingest call's request body, as far as it was read
    itx,          \* each ingest call's open transaction
    application_secret,  \* each ingest call's local `application_secret`
    event,        \* each ingest call's local `event`, the row its INSERT returned
    result        \* each ingest call's return value

\* The worker's share of the state, and the ingest handler's.
wvars == <<attempts, responses, pc, tx, attempt, response, response_id,
           retry_in, next_retry_count>>
ivars == <<events, secrets, ipc, body, itx, application_secret, event, result>>
vars == <<now, wvars, ivars>>

Min(a, b) == IF a <= b THEN a ELSE b
Max(a, b) == IF a >= b THEN a ELSE b

\* ------------------------------------------------------------ transactions
NoTx == [open |-> FALSE, locks |-> {}, attempts |-> <<>>, responses |-> <<>>]
OpenTx == [open |-> TRUE, locks |-> {}, attempts |-> <<>>, responses |-> <<>>]

NoAttempt == [request_attempt__id |-> NULL]
NoResponse == [response_error__name |-> NoError, http_code |-> NULL]

\* Rows locked by an open transaction of a worker other than w.
LockedByPeer(w) == UNION {tx[v].locks : v \in Workers \ {w}}

\* Ids of request_attempt rows that exist, committed or pending in some tx.
UsedAttemptIds == DOMAIN attempts \cup UNION {DOMAIN tx[w].attempts : w \in Workers}
UsedResponseIds == DOMAIN responses \cup UNION {DOMAIN tx[w].responses : w \in Workers}

\* The store generates a fresh primary key for an inserted row.
FreshId(used) == CHOOSE i \in 1..(Cardinality(used) + 1) : i \notin used

\* The row as the transaction of w sees it: its own pending write, else the
\* committed version.
RowSeenBy(w, id) == IF id \in DOMAIN tx[w].attempts THEN tx[w].attempts[id] ELSE attempts[id]

\* UPDATE webhook.request_attempt SET ... WHERE request_attempt__id = id,
\* executed on the transaction of w.
TxUpdateAttempt(w, id, row) ==
    [tx[w] EXCEPT !.attempts = (id :> row) @@ tx[w].attempts]

\* ------------------------------------------------------------- the worker
WorkerVersion(w) == 100 + w

\* conn.begin()
Begin(w) ==
    /\ pc[w] = "begin"
    /\ tx' = [tx EXCEPT ![w] = OpenTx]
    /\ pc' = [pc EXCEPT ![w] = "select"]
    /\ UNCHANGED <<now, attempts, responses, attempt, response, response_id,
                   retry_in, next_retry_count, ivars>>

\* Mutant: the claim query without `AND failed_at IS NULL`.
EligibleIgnoringFailed(row) ==
    /\ row.succeeded_at = NULL
    /\ (row.delay_until = NULL \/ row.delay_until <= now)

\* Mutant: the claim query without `succeeded_at IS NULL`.
EligibleIgnoringSucceeded(row) ==
    /\ row.failed_at = NULL
    /\ (row.delay_until = NULL \/ row.delay_until <= now)

\* Mutant: the claim query with `delay_until IS NULL` as its only condition
\* on the delay.
EligibleUndelayedOnly(row) ==
    /\ row.succeeded_at = NULL
    /\ row.failed_at = NULL
    /\ row.delay_until = NULL

\* WHERE succeeded_at IS NULL AND failed_at IS NULL
\*   AND (delay_until IS NULL OR delay_until <= statement_timestamp())
Eligible(row) ==
    /\ row.succeeded_at = NULL
    /\ row.failed_at = NULL
    /\ (row.delay_until = NULL \/ row.delay_until <= now)

\* Mutant: the claim query without FOR UPDATE ... SKIP LOCKED.
SelectableWithoutLock(w) == {id \in DOMAIN attempts : Eligible(attempts[id])}

\* FOR UPDATE OF ra SKIP LOCKED: the committed rows w can lock.
Selectable(w) == {id \in DOMAIN attempts : Eligible(attempts[id]) /\ id \notin LockedByPeer(w)}

\* Mutant: the claim query ordered by created_at DESC.
Newest(ids) == {id \in ids : \A other \in ids : attempts[id].created_at >= attempts[other].created_at}

\* ORDER BY created_at ASC LIMIT 1
Oldest(ids) == {id \in ids : \A other \in ids : attempts[id].created_at <= attempts[other].created_at}

\* The claim query, fetch_optional: Some(attempt) locks the row, None goes
\* to the polling sleep.
Select(w) ==
    /\ pc[w] = "select"
    /\ IF Selectable(w) = {}
       THEN /\ attempt' = [attempt EXCEPT ![w] = NoAttempt]
            /\ pc' = [pc EXCEPT ![w] = "sleep"]
            /\ UNCHANGED tx
       ELSE \E id \in Oldest(Selectable(w)) :
            /\ attempt' = [attempt EXCEPT ![w] =
                  [request_attempt__id |-> id,
                   event__id |-> attempts[id].event__id,
                   subscription__id |-> attempts[id].subscription__id,
                   created_at |-> attempts[id].created_at,
                   retry_count |-> attempts[id].retry_count]]
            /\ tx' = [tx EXCEPT ![w].locks = @ \cup {id}]
            /\ pc' = [pc EXCEPT ![w] = "pick"]
    /\ UNCHANGED <<now, attempts, responses, response, response_id,
                   retry_in, next_retry_count, ivars>>

\* Mutant: the picked_at UPDATE executed on the connection instead of the
\* transaction, so that it is committed when it returns.
PickOutsideTx(w) ==
    /\ pc[w] = "pick"
    /\ LET id == attempt[w].request_attempt__id
       IN attempts' = [attempts EXCEPT ![id] =
                    [@ EXCEPT !.picked_at = now,
                              !.worker_id = w,
                              !.worker_version = WorkerVersion(w)]]
    /\ pc' = [pc EXCEPT ![w] = "work"]
    /\ UNCHANGED <<now, responses, tx, attempt, response, response_id,
                   retry_in, next_retry_count, ivars>>

\* Mutant: the picked_at UPDATE matches no row.
PickNoRow(w) ==
    /\ pc[w] = "pick"
    /\ pc' = [pc EXCEPT ![w] = "work"]
    /\ UNCHANGED <<now, attempts, responses, tx, attempt, response, response_id,
                   retry_in, next_retry_count, ivars>>

\* UPDATE ... SET picked_at = statement_timestamp(), worker_id, worker_version
Pick(w) ==
    /\ pc[w] = "pick"
    /\ LET id == attempt[w].request_attempt__id
       IN tx' = [tx EXCEPT ![w] = TxUpdateAttempt(w, id,
                    [RowSeenBy(w, id) EXCEPT !.picked_at = now,
                                             !.worker_id = w,
                                             !.worker_version = WorkerVersion(w)])]
    /\ pc' = [pc EXCEPT ![w] = "work"]
    /\ UNCHANGED <<now, attempts, responses, attempt, response, response_id,
                   retry_in, next_retry_count, ivars>>

\* ---------------------------------------------------------- the HTTP call
HttpCodes == {200, 500}
TransportErrors == {"ConnectionError"}

\* What work(&attempt) can return: a status, or a categorised transport error.
Responses ==
    {[response_error__name |-> NoError, http_code |-> c] : c \in HttpCodes}
    \cup {[response_error__name |-> e, http_code |-> NULL] : e \in TransportErrors}

\* Response::is_success()
is_success(r) ==
    /\ r.response_error__name = NoError
    /\ r.http_code >= 200
    /\ r.http_code < 300

\* Workers that hold a non-success response whose retry row is not inserted.
RetriesToCome == {w \in Workers : pc[w] \in {"store_response", "associate", "mark", "retry"}
                                    /\ ~is_success(response[w])}

\* The table has room for the retry row a further failure will insert.
RoomForRetry == Cardinality(UsedAttemptIds) + Cardinality(RetriesToCome) < MaxAttempts

\* let response = work(&attempt).await;
Work(w) ==
    /\ pc[w] = "work"
    /\ \E r \in Responses :
        /\ is_success(r) \/ RoomForRetry
        /\ response' = [response EXCEPT ![w] = r]
    /\ pc' = [pc EXCEPT ![w] = "store_response"]
    /\ UNCHANGED <<now, attempts, responses, tx, attempt, response_id,
                   retry_in, next_retry_count, ivars>>

\* Mutant: the response INSERT executed on the connection instead of the
\* transaction, so that it is committed when it returns.
StoreResponseOutsideTx(w) ==
    /\ pc[w] = "store_response"
    /\ LET id == FreshId(UsedResponseIds)
       IN /\ responses' = (id :> response[w]) @@ responses
          /\ response_id' = [response_id EXCEPT ![w] = id]
    /\ pc' = [pc EXCEPT ![w] = "associate"]
    /\ UNCHANGED <<now, attempts, tx, attempt, response,
                   retry_in, next_retry_count, ivars>>

\* INSERT INTO webhook.response (...) RETURNING response__id
StoreResponse(w) ==
    /\ pc[w] = "store_response"
    /\ LET id == FreshId(UsedResponseIds)
       IN /\ tx' = [tx EXCEPT ![w].responses = (id :> response[w]) @@ @]
          /\ response_id' = [response_id EXCEPT ![w] = id]
    /\ pc' = [pc EXCEPT ![w] = "associate"]
    /\ UNCHANGED <<now, attempts, responses, attempt, response,
                   retry_in, next_retry_count, ivars>>

\* UPDATE webhook.request_attempt SET response__id = $1
Associate(w) ==
    /\ pc[w] = "associate"
    /\ LET id == attempt[w].request_attempt__id
       IN tx' = [tx EXCEPT ![w] = TxUpdateAttempt(w, id,
                    [RowSeenBy(w, id) EXCEPT !.response__id = response_id[w]])]
    /\ pc' = [pc EXCEPT ![w] = "mark"]
    /\ UNCHANGED <<now, attempts, responses, attempt, response, response_id,
                   retry_in, next_retry_count, ivars>>

\* Mutant: any response that carries a status counts as a success.
MarkSucceededOnAnyStatus(w) ==
    /\ pc[w] = "mark"
    /\ response[w].response_error__name = NoError
    /\ LET id == attempt[w].request_attempt__id
       IN tx' = [tx EXCEPT ![w] = TxUpdateAttempt(w, id,
                    [RowSeenBy(w, id) EXCEPT !.succeeded_at = now])]
    /\ pc' = [pc EXCEPT ![w] = "commit"]
    /\ UNCHANGED <<now, attempts, responses, attempt, response, response_id,
                   retry_in, next_retry_count, ivars>>

\* if response.is_success() { SET succeeded_at = statement_timestamp() }
MarkSucceeded(w) ==
    /\ pc[w] = "mark"
    /\ is_success(response[w])
    /\ LET id == attempt[w].request_attempt__id
       IN tx' = [tx EXCEPT ![w] = TxUpdateAttempt(w, id,
                    [RowSeenBy(w, id) EXCEPT !.succeeded_at = now])]
    /\ pc' = [pc EXCEPT ![w] = "commit"]
    /\ UNCHANGED <<now, attempts, responses, attempt, response, response_id,
                   retry_in, next_retry_count, ivars>>

\* else { SET failed_at = statement_timestamp() }
MarkFailed(w) ==
    /\ pc[w] = "mark"
    /\ ~is_success(response[w])
    /\ LET id == attempt[w].request_attempt__id
       IN tx' = [tx EXCEPT ![w] = TxUpdateAttempt(w, id,
                    [RowSeenBy(w, id) EXCEPT !.failed_at = now])]
    /\ pc' = [pc EXCEPT ![w] = "retry"]
    /\ UNCHANGED <<now, attempts, responses, attempt, response, response_id,
                   retry_in, next_retry_count, ivars>>

\* u32::try_from(attempt.retry_count).unwrap_or(1)
RetryCountU32(n) == IF n >= 0 THEN n ELSE 1

\* Mutant: max in the place of min.
RetryInMax(n) == Max(MINIMUM_RETRY_DELAY * RetryCountU32(n), MAXIMUM_RETRY_DELAY)

\* min(MINIMUM_RETRY_DELAY * retry_count, MAXIMUM_RETRY_DELAY)
RetryIn(n) == Min(MINIMUM_RETRY_DELAY * RetryCountU32(n), MAXIMUM_RETRY_DELAY)

\* attempt.retry_count + 1 on an i16 overflows at I16_MAX.
Overflows(n) == n + 1 > I16_MAX

\* The two's complement result of the overflowing addition.
WrapI16(x) == ((x + I16_MAX + 1) % I16_MODULUS) - (I16_MAX + 1)

\* A row of webhook.request_attempt as the INSERT of the retry creates it.
NewAttempt(event_id, subscription_id, delay, count) ==
    [event__id |-> event_id, subscription__id |-> subscription_id, created_at |-> now,
     retry_count |-> count, delay_until |-> delay, picked_at |-> NULL,
     worker_id |-> NULL, worker_version |-> NULL, succeeded_at |-> NULL,
     failed_at |-> NULL, response__id |-> NULL]

\* Creating a retry request: the delay, the next count, the INSERT.
Retry(w) ==
    /\ pc[w] = "retry"
    /\ LET n == attempt[w].retry_count
           id == FreshId(UsedAttemptIds)
       IN /\ retry_in' = [retry_in EXCEPT ![w] = RetryIn(n)]
          /\ next_retry_count' = [next_retry_count EXCEPT ![w] = WrapI16(n + 1)]
          /\ tx' = [tx EXCEPT ![w].attempts =
                      (id :> NewAttempt(attempt[w].event__id, attempt[w].subscription__id,
                                        now + RetryIn(n), WrapI16(n + 1))) @@ @]
    /\ pc' = [pc EXCEPT ![w] = "commit"]
    /\ UNCHANGED <<now, attempts, responses, attempt, response, response_id, ivars>>

\* The worker process is gone: its connection closes and the store rolls
\* its open transaction back.  attempt[w] stays, as the record of what the
\* process held when it ended.
Terminate(w, how) ==
    /\ pc' = [pc EXCEPT ![w] = how]
    /\ tx' = [tx EXCEPT ![w] = NoTx]
    /\ UNCHANGED attempt
    /\ response' = [response EXCEPT ![w] = NoResponse]
    /\ response_id' = [response_id EXCEPT ![w] = NULL]
    /\ retry_in' = [retry_in EXCEPT ![w] = NULL]
    /\ next_retry_count' = [next_retry_count EXCEPT ![w] = NULL]
    /\ UNCHANGED <<now, attempts, responses, ivars>>

\* A build with overflow checks panics on attempt.retry_count + 1.
RetryPanic(w) ==
    /\ pc[w] = "retry"
    /\ Overflows(attempt[w].retry_count)
    /\ Terminate(w, "panicked")

\* delay_for(POLLING_SLEEP).await, with the transaction still open.
Sleep(w) ==
    /\ pc[w] = "sleep"
    /\ pc' = [pc EXCEPT ![w] = "commit"]
    /\ UNCHANGED <<now, attempts, responses, tx, attempt, response, response_id,
                   retry_in, next_retry_count, ivars>>

\* tx.commit(): the pending writes become the committed rows, the locks go,
\* and the loop starts over.
Commit(w) ==
    /\ pc[w] = "commit"
    /\ attempts' = tx[w].attempts @@ attempts
    /\ responses' = tx[w].responses @@ responses
    /\ tx' = [tx EXCEPT ![w] = NoTx]
    /\ attempt' = [attempt EXCEPT ![w] = NoAttempt]
    /\ response' = [response EXCEPT ![w] = NoResponse]
    /\ response_id' = [response_id EXCEPT ![w] = NULL]
    /\ retry_in' = [retry_in EXCEPT ![w] = NULL]
    /\ next_retry_count' = [next_retry_count EXCEPT ![w] = NULL]
    /\ pc' = [pc EXCEPT ![w] = "begin"]
    /\ UNCHANGED <<now, ivars>>

\* The positions of main() that await a store operation followed by `?`.
StoreOps == {"begin", "select", "pick", "store_response", "associate", "mark",
             "retry", "commit"}

\* A store operation returns Err: `?` returns it from main().
StoreFail(w) ==
    /\ pc[w] \in StoreOps
    /\ Terminate(w, "exited")

Alive == {"begin", "select", "pick", "work", "store_response", "associate",
          "mark", "retry", "sleep", "commit"}

\* The process is killed at any point of the loop.
Crash(w) ==
    /\ pc[w] \in Alive
    /\ Terminate(w, "crashed")

\* ---------------------------------------------------------- the store clock
Tick ==
    /\ now < MaxClock
    /\ now' = now + 1
    /\ UNCHANGED <<attempts, responses, pc, tx, attempt, response, response_id,
                   retry_in, next_retry_count, ivars>>

DueDates == {attempts[id].delay_until : id \in DOMAIN attempts} \ (NULL..now)

\* Time passes until the next delayed attempt is due.
Jump ==
    /\ DueDates # {}
    /\ now' = CHOOSE d \in DueDates : \A e \in DueDates : d <= e
    /\ UNCHANGED <<attempts, responses, pc, tx, attempt, response, response_id,
                   retry_in, next_retry_count, ivars>>

\* ------------------------------------------------------------- the ingest
Calls == 1..NumCalls

\* event.payload_content_type
RegisteredContentTypes == {"text/plain"}
ContentTypes == {"text/plain", "application/unobtanium"}

\* The base64 alphabet, in the order of the 6-bit values 0..63.
Base64Alphabet ==
    <<"A","B","C","D","E","F","G","H","I","J","K","L","M","N","O","P",
      "Q","R","S","T","U","V","W","X","Y","Z","a","b","c","d","e","f",
      "g","h","i","j","k","l","m","n","o","p","q","r","s","t","u","v",
      "w","x","y","z","0","1","2","3","4","5","6","7","8","9","+","/">>

IsBase64Char(ch) == \E i \in DOMAIN Base64Alphabet : Base64Alphabet[i] = ch
Base64Value(ch) == (CHOOSE i \in DOMAIN Base64Alphabet : Base64Alphabet[i] = ch) - 1

\* The number of trailing "=" of a string.
RECURSIVE Padding(_)
Padding(str) ==
    IF Len(str) > 0 /\ str[Len(str)] = "=" THEN 1 + Padding(SubSeq(str, 1, Len(str) - 1)) ELSE 0

\* The bytes of one group of four characters, the last `pad` of them "=".
DecodeQuad(q, pad) ==
    LET v(i) == IF i > 4 - pad THEN 0 ELSE Base64Value(q[i])
        bits == v(1) * 262144 + v(2) * 4096 + v(3) * 64 + v(4)
        bytes == <<bits \div 65536, (bits \div 256) % 256, bits % 256>>
    IN SubSeq(bytes, 1, 3 - pad)

RECURSIVE DecodeQuads(_, _)
DecodeQuads(str, pad) ==
    IF Len(str) = 0 THEN <<>>
    ELSE IF Len(str) = 4 THEN DecodeQuad(str, pad)
    ELSE DecodeQuad(SubSeq(str, 1, 4), 0) \o DecodeQuads(SubSeq(str, 5, Len(str)), pad)

\* base64::decode: Ok(bytes) for a padded string of the standard alphabet
\* whose unused trailing bits are zero, Err otherwise.
base64_decode(str) ==
    LET pad == Padding(str)
        data == SubSeq(str, 1, Len(str) - pad)
        wellFormed == /\ Len(str) % 4 = 0
                      /\ pad <= 2
                      /\ \A i \in DOMAIN data : IsBase64Char(data[i])
        last == Base64Value(data[Len(data)])
        cleanTail == \/ pad = 0
                     \/ pad = 1 /\ last % 4 = 0
                     \/ pad = 2 /\ last % 16 = 0
    IN IF wellFormed /\ (Len(data) = 0 \/ cleanTail)
       THEN [ok |-> TRUE, bytes |-> DecodeQuads(str, pad)]
       ELSE [ok |-> FALSE, bytes |-> <<>>]

\* The payloads callers send: base64("hi") and a string that is not base64.
Payloads == {<<"a","G","k","=">>,
             <<"!","!","!","n","o","t","-","b","a","s","e","6","4">>}

\* serde_json::Value by its kind; "absent" is the None of Option<Value>.
MetadataValues == {"absent", "object", "array"}
LabelsValues == {"object", "array"}
is_object(val) == val = "object"

Applications == {1, 2}
\* Tokens callers present: 1 is a secret of application 1, 2 a secret of
\* application 2, 3 a revoked secret of application 1, 4 is no secret at all.
Tokens == {1, 2, 3, 4}
EventIds == {1}

\* Hook0Problem::from(sqlx::Error)
ProblemFrom(err) ==
    CASE err = "RowNotFound" -> "Forbidden"
      [] err = "UniqueViolation" -> "Conflict"
      [] OTHER -> "InternalServerError"

NoEvent == [event_id |-> NULL]

\* The handler returns: the transaction, if still open, is dropped and so
\* rolled back.
Return(c, value) ==
    /\ result' = [result EXCEPT ![c] = value]
    /\ itx' = [itx EXCEPT ![c] = [open |-> FALSE]]
    /\ ipc' = [ipc EXCEPT ![c] = "done"]

\* state.db.begin()
IngestBegin(c) ==
    /\ ipc[c] = "begin"
    /\ itx' = [itx EXCEPT ![c] = [open |-> TRUE]]
    /\ ipc' = [ipc EXCEPT ![c] = "secret"]
    /\ UNCHANGED <<now, wvars, events, secrets, body, application_secret, event, result>>

\* Mutant: the lookup without its deleted_at IS NULL condition.
SecretRowsIncludingDeleted(application_id, token) ==
    {t \in DOMAIN secrets : /\ secrets[t].application__id = application_id
                            /\ t = token}

\* SELECT ... FROM event.application_secret
\* WHERE application__id = $1 AND token = $2 AND deleted_at IS NULL
SecretRows(application_id, token) ==
    {t \in DOMAIN secrets : /\ secrets[t].application__id = application_id
                            /\ t = token
                            /\ secrets[t].deleted_at = NULL}

\* fetch_one of the secret: the row, or RowNotFound.
LoadSecret(c) ==
    /\ ipc[c] = "secret"
    /\ LET rows == SecretRows(body[c].application_id, body[c].application_secret)
       IN IF rows = {}
          THEN /\ Return(c, ProblemFrom("RowNotFound"))
               /\ UNCHANGED application_secret
          ELSE /\ \E t \in rows : application_secret' = [application_secret EXCEPT ![c] = t]
               /\ ipc' = [ipc EXCEPT ![c] = "content_type"]
               /\ UNCHANGED <<itx, result>>
    /\ UNCHANGED <<now, wvars, events, secrets, body, event>>

\* SELECT COUNT(*) AS nb FROM event.payload_content_type WHERE name = $1
ContentTypeLookup(name) == Cardinality({n \in RegisteredContentTypes : n = name})

\* The content type lookup; the handler reads body.payload_content_type here.
LookupContentType(c) ==
    /\ ipc[c] = "content_type"
    /\ \E name \in ContentTypes :
         body' = [body EXCEPT ![c] = @ @@ [payload_content_type |-> name]]
    /\ ipc' = [ipc EXCEPT ![c] = "validate"]
    /\ UNCHANGED <<now, wvars, events, secrets, itx, application_secret, event, result>>

\* Mutant: the metadata arm of the match placed before the base64 arm.
ValidationMetadataFirst(content_type_ok, payload, metadata_ok, labels_ok) ==
    CASE content_type_ok /\ payload.ok /\ metadata_ok /\ labels_ok -> "ok"
      [] ~content_type_ok -> "EventInvalidPayloadContentType"
      [] ~metadata_ok -> "EventInvalidMetadata"
      [] ~payload.ok -> "EventInvalidBase64Payload"
      [] ~labels_ok -> "EventInvalidLabels"

\* match (content_type_ok, payload, metadata_ok, labels_ok): the error of
\* the first arm that matches, "ok" for the arm that inserts.
Validation(content_type_ok, payload, metadata_ok, labels_ok) ==
    CASE content_type_ok /\ payload.ok /\ metadata_ok /\ labels_ok -> "ok"
      [] ~content_type_ok -> "EventInvalidPayloadContentType"
      [] ~payload.ok -> "EventInvalidBase64Payload"
      [] ~metadata_ok -> "EventInvalidMetadata"
      [] ~labels_ok -> "EventInvalidLabels"

\* The four checks of a body and the arm they select.
Validate(b) ==
    Validation(ContentTypeLookup(b.payload_content_type) = 1,
               base64_decode(b.payload),
               b.metadata = "absent" \/ is_object(b.metadata),
               is_object(b.labels))

\* The checks and the match; in the inserting arm the peer address is
\* parsed, which the connection may or may not allow.
Check(c) ==
    /\ ipc[c] = "validate"
    /\ \E payload \in Payloads, metadata \in MetadataValues, labels \in LabelsValues,
          ip_ok \in BOOLEAN :
         LET b == body[c] @@ [payload |-> payload, metadata |-> metadata, labels |-> labels]
         IN /\ body' = [body EXCEPT ![c] = b]
            /\ IF Validate(b) # "ok"
               THEN Return(c, Validate(b))
               ELSE IF ~ip_ok
               THEN Return(c, "InternalServerError")
               ELSE /\ ipc' = [ipc EXCEPT ![c] = "insert"]
                    /\ UNCHANGED <<itx, result>>
    /\ UNCHANGED <<now, wvars, events, secrets, application_secret, event>>

\* The primary key of event.event.
SameKey(row, application_id, event_id) ==
    row.application__id = application_id /\ row.event__id = event_id

\* Mutant: the INSERT as an upsert (ON CONFLICT ... DO UPDATE), which never
\* fails on a duplicate key.
InsertUpsert(c) ==
    /\ ipc[c] = "insert"
    /\ events' = Append(events,
          [application__id |-> body[c].application_id,
           event__id |-> body[c].event_id,
           payload |-> base64_decode(body[c].payload).bytes,
           payload_content_type__name |-> body[c].payload_content_type,
           metadata |-> body[c].metadata,
           labels |-> body[c].labels,
           received_at |-> now,
           application_secret__token |-> application_secret[c]])
    /\ event' = [event EXCEPT ![c] =
          [application_id |-> body[c].application_id,
           event_id |-> body[c].event_id,
           received_at |-> now]]
    /\ ipc' = [ipc EXCEPT ![c] = "commit"]
    /\ UNCHANGED <<now, wvars, secrets, body, itx, application_secret, result>>

\* INSERT INTO event.event ... RETURNING, executed on the pool (&state.db):
\* a statement of its own, committed when it returns.
Insert(c) ==
    /\ ipc[c] = "insert"
    /\ IF \E i \in DOMAIN events : SameKey(events[i], body[c].application_id, body[c].event_id)
       THEN /\ Return(c, ProblemFrom("UniqueViolation"))
            /\ UNCHANGED <<events, event>>
       ELSE /\ events' = Append(events,
                  [application__id |-> body[c].application_id,
                   event__id |-> body[c].event_id,
                   payload |-> base64_decode(body[c].payload).bytes,
                   payload_content_type__name |-> body[c].payload_content_type,
                   metadata |-> body[c].metadata,
                   labels |-> body[c].labels,
                   received_at |-> now,
                   application_secret__token |-> application_secret[c]])
            /\ event' = [event EXCEPT ![c] =
                  [application_id |-> body[c].application_id,
                   event_id |-> body[c].event_id,
                   received_at |-> now]]
            /\ ipc' = [ipc EXCEPT ![c] = "commit"]
            /\ UNCHANGED <<itx, result>>
    /\ UNCHANGED <<now, wvars, secrets, body, application_secret>>

\* tx.commit() and Ok(CreatedJson(event))
IngestCommit(c) ==
    /\ ipc[c] = "commit"
    /\ Return(c, "Created")
    /\ UNCHANGED <<now, wvars, events, secrets, body, application_secret, event>>

\* The positions of ingest() that await a store operation followed by `?`.
IngestStoreOps == {"begin", "secret", "content_type", "insert", "commit"}

\* A store operation returns Err: map_err(Hook0Problem::from)? returns it.
IngestStoreFail(c) ==
    /\ ipc[c] \in IngestStoreOps
    /\ Return(c, ProblemFrom("Other"))
    /\ UNCHANGED <<now, wvars, events, secrets, body, application_secret, event>>

\* A secret is revoked while calls are being served.
RevokeSecret(t) ==
    /\ t \in DOMAIN secrets
    /\ secrets[t].deleted_at = NULL
    /\ secrets' = [secrets EXCEPT ![t].deleted_at = now]
    /\ UNCHANGED <<now, wvars, events, ipc, body, itx, application_secret, event, result>>

\* ------------------------------------------------------------ specification
\* The retry counts of the backlog: a fresh attempt, retries below and at the
\* ceiling of the schedule, and the largest count the column holds.
BacklogRetryCounts == {0, 60, I16_MAX}

InitBacklog == 2

\* A backlog: one pending attempt per event, the first one a retry with
\* count n that is due, the others fresh from ingest.
Backlog(n) ==
    [id \in 1..InitBacklog |->
        [NewAttempt(id, 1, NULL, IF id = 1 THEN n ELSE 0) EXCEPT
            !.created_at = id - 1,
            !.delay_until = IF id = 1 /\ n > 0 THEN 0 ELSE NULL]]

\* The workers start their loops.
WorkersStart ==
    /\ now = 1
    /\ responses = <<>>
    /\ pc = [w \in Workers |-> "begin"]
    /\ tx = [w \in Workers |-> NoTx]
    /\ attempt = [w \in Workers |-> NoAttempt]
    /\ response = [w \in Workers |-> NoResponse]
    /\ response_id = [w \in Workers |-> NULL]
    /\ retry_in = [w \in Workers |-> NULL]
    /\ next_retry_count = [w \in Workers |-> NULL]

WorkersInit ==
    /\ WorkersStart
    /\ \E n \in BacklogRetryCounts : attempts = Backlog(n)

\* The secrets table the calls find.
InitSecrets ==
    (1 :> [application__id |-> 1, deleted_at |-> NULL])
    @@ (2 :> [application__id |-> 2, deleted_at |-> NULL])
    @@ (3 :> [application__id |-> 1, deleted_at |-> 0])

\* No ingest call is being served.
IngestIdle ==
    /\ events = <<>>
    /\ secrets = InitSecrets
    /\ ipc = [c \in Calls |-> "done"]
    /\ body = [c \in Calls |-> <<>>]
    /\ itx = [c \in Calls |-> [open |-> FALSE]]
    /\ application_secret = [c \in Calls |-> NULL]
    /\ event = [c \in Calls |-> NoEvent]
    /\ result = [c \in Calls |-> "none"]

\* The calls arrive, each with the key and the secret of its body.
IngestInit ==
    /\ events = <<>>
    /\ secrets = InitSecrets
    /\ ipc = [c \in Calls |-> "begin"]
    /\ body \in [Calls -> [application_id : Applications, event_id : EventIds,
                           application_secret : Tokens]]
    /\ itx = [c \in Calls |-> [open |-> FALSE]]
    /\ application_secret = [c \in Calls |-> NULL]
    /\ event = [c \in Calls |-> NoEvent]
    /\ result = [c \in Calls |-> "none"]

\* No worker runs and the backlog is empty.
WorkersIdle ==
    /\ now = 1
    /\ attempts = <<>>
    /\ responses = <<>>
    /\ pc = [w \in Workers |-> "crashed"]
    /\ tx = [w \in Workers |-> NoTx]
    /\ attempt = [w \in Workers |-> NoAttempt]
    /\ response = [w \in Workers |-> NoResponse]
    /\ response_id = [w \in Workers |-> NULL]
    /\ retry_in = [w \in Workers |-> NULL]
    /\ next_retry_count = [w \in Workers |-> NULL]

WorkerStep(w) ==
    \/ Begin(w)
    \/ Select(w)
    \/ Pick(w)
    \/ Work(w)
    \/ StoreResponse(w)
    \/ Associate(w)
    \/ MarkSucceeded(w)
    \/ MarkFailed(w)
    \/ Retry(w)
    \/ RetryPanic(w)
    \/ Sleep(w)
    \/ Commit(w)

Next ==
    \/ \E w \in Workers : WorkerStep(w)
    \/ \E w \in Workers : StoreFail(w)
    \/ \E w \in Workers : Crash(w)
    \/ Tick
    \/ Jump

Init == WorkersInit /\ IngestIdle

\* The delivery workers against a backlog.
Spec == Init /\ [][Next]_vars

IngestStep(c) ==
    \/ IngestBegin(c)
    \/ LoadSecret(c)
    \/ LookupContentType(c)
    \/ Check(c)
    \/ Insert(c)
    \/ IngestCommit(c)

NextIngest ==
    \/ \E c \in Calls : IngestStep(c)
    \/ \E c \in Calls : IngestStoreFail(c)
    \/ \E t \in Tokens : RevokeSecret(t)

\* The backlog whose first attempt is at the top of the retry range: from
\* it the workers reach every step of the loop, the overflow included.
InitFair == WorkersStart /\ attempts = Backlog(I16_MAX) /\ IngestIdle

\* A process that is alive keeps executing its loop.
FairSpec == InitFair /\ [][Next]_vars /\ \A w \in Workers : WF_vars(WorkerStep(w))

\* A process that is alive keeps executing its loop, and the store clock
\* does not stop before a due date.
FairClockSpec == FairSpec /\ WF_vars(Jump)

InitIngest == WorkersIdle /\ IngestInit

\* Every status an HTTP response can carry, and every kind of transport
\* error the worker records.
StatusCodes == 100..599
ErrorKinds == {"Timeout", "ConnectionError", "InvalidHeaders", "InvalidUrl",
              "TooManyRedirects", "OtherTransport"}
AllResponses ==
    {[response_error__name |-> NoError, http_code |-> c] : c \in StatusCodes}
    \cup {[response_error__name |-> e, http_code |-> NULL] : e \in ErrorKinds}

\* The inputs of one iteration: the retry count of the claimed attempt and
\* what the call returned.  Every response for a fresh attempt, and every
\* retry count of the column for a call that could not connect.
IterationInputs ==
    ({0} \X AllResponses)
    \cup ((0..I16_MAX) \X {[response_error__name |-> "ConnectionError", http_code |-> NULL]})

\* Worker 1 has claimed and picked the oldest attempt of the backlog, a
\* retry with count n (or a fresh attempt, n = 0), and its call has returned
\* r; no other worker runs.
MidIteration(n, r) ==
    /\ now = 1
    /\ attempts = Backlog(n)
    /\ responses = <<>>
    /\ pc = [w \in Workers |-> IF w = 1 THEN "store_response" ELSE "crashed"]
    /\ tx = [w \in Workers |->
               IF w = 1
               THEN [OpenTx EXCEPT !.locks = {1},
                                   !.attempts = (1 :> [Backlog(n)[1] EXCEPT
                                                         !.picked_at = 1,
                                                         !.worker_id = 1,
                                                         !.worker_version = WorkerVersion(1)])]
               ELSE NoTx]
    /\ attempt = [w \in Workers |->
                    IF w = 1
                    THEN [request_attempt__id |-> 1,
                          event__id |-> Backlog(n)[1].event__id,
                          subscription__id |-> Backlog(n)[1].subscription__id,
                          created_at |-> Backlog(n)[1].created_at,
                          retry_count |-> n]
                    ELSE NoAttempt]
    /\ response = [w \in Workers |-> IF w = 1 THEN r ELSE NoResponse]
    /\ response_id = [w \in Workers |-> NULL]
    /\ retry_in = [w \in Workers |-> NULL]
    /\ next_retry_count = [w \in Workers |-> NULL]

InitIteration ==
    /\ \E input \in IterationInputs : MidIteration(input[1], input[2])
    /\ IngestIdle

\* The steps of an iteration after the call: storing the response, the
\* outcome, the retry, the commit.
IterationStep(w) ==
    \/ StoreResponse(w)
    \/ Associate(w)
    \/ MarkSucceeded(w)
    \/ MarkFailed(w)
    \/ Retry(w)
    \/ RetryPanic(w)
    \/ Commit(w)

NextIteration == \E w \in Workers : IterationStep(w)

\* One iteration from the return of the call to its commit, over all its
\* inputs.
SpecIteration == InitIteration /\ [][NextIteration]_vars

\* The ingest calls against the store.
SpecIngest == InitIngest /\ [][NextIngest]_vars

\* ================================================================== claims

\* Rows a worker holds: the locks of its open transaction.
Held(w) == tx[w].locks
InFlight(w) == pc[w] \in {"pick", "work", "store_response", "associate", "mark",
                          "retry", "commit"} /\ attempt[w] # NoAttempt
Dead(w) == pc[w] \in {"exited", "crashed", "panicked"}
EligibleRows == {id \in DOMAIN attempts : Eligible(attempts[id])}
Terminal(row) == row.succeeded_at # NULL \/ row.failed_at # NULL

\* ---- C1
NeverHeldByTwo ==
    \A w \in Workers : \A v \in Workers \ {w} :
        /\ Held(w) \cap Held(v) = {}
        /\ InFlight(w) /\ InFlight(v)
             => attempt[w].request_attempt__id # attempt[v].request_attempt__id

\* A claim query returns a row no peer holds; when peers hold every eligible
\* row it returns none and the worker goes to sleep.
ClaimSkipsHeldRows ==
    \A w \in Workers :
        pc[w] = "select" /\ pc'[w] \in {"pick", "sleep"} =>
            IF EligibleRows \subseteq LockedByPeer(w)
            THEN pc'[w] = "sleep" /\ attempt'[w] = NoAttempt
            ELSE /\ pc'[w] = "pick"
                 /\ attempt'[w].request_attempt__id \in EligibleRows \ LockedByPeer(w)

\* A committed row changes only while its picked_at is still null: a row is
\* picked, and written to, by one committed transaction at most.
OneCommittedPick ==
    \A id \in DOMAIN attempts :
        attempts'[id] # attempts[id] =>
            /\ attempts[id].picked_at = NULL
            /\ attempts'[id].picked_at # NULL

\* C1: no attempt is held by two workers at once; a claim query skips the
\* rows peers hold, so of two workers racing for one eligible attempt one
\* gets it and the other gets no row and sleeps; at most one picked_at
\* update of an attempt is ever committed.
C1_NoDoubleClaim ==
    /\ []NeverHeldByTwo
    /\ [][ClaimSkipsHeldRows /\ OneCommittedPick]_vars

\* Two workers raced for the one eligible attempt: one holds it, the other
\* found no row and sleeps.
C1_Witness ==
    \E w \in Workers : \E v \in Workers \ {w} :
        /\ InFlight(w)
        /\ EligibleRows = {attempt[w].request_attempt__id}
        /\ pc[v] = "sleep"

\* ---- C2
\* The successors of a row: the rows of the same event and subscription
\* with the next retry count.
Successors(rows, id) ==
    {j \in DOMAIN rows : /\ rows[j].event__id = rows[id].event__id
                         /\ rows[j].subscription__id = rows[id].subscription__id
                         /\ rows[j].retry_count = rows[id].retry_count + 1}

\* C2: in every committed state an attempt has a successor if and only if
\* its failed_at is set, and then exactly one, with the same event and
\* subscription and retry_count + 1.
C2_RetryChainIntegrity ==
    \A id \in DOMAIN attempts :
        /\ attempts[id].failed_at # NULL <=> Successors(attempts, id) # {}
        /\ attempts[id].failed_at # NULL => Cardinality(Successors(attempts, id)) = 1

\* ---- C3
\* backoff(n) of the specification.
SpecBackoffOf(n) == Min(MINIMUM_RETRY_DELAY * Max(n, 1), MAXIMUM_RETRY_DELAY)

\* C3: the delay a worker adds to the store clock for the successor of a
\* failed attempt with retry_count n >= 0 is min(5s * max(n, 1), 300s).
C3_BackoffFormula ==
    \A w \in Workers :
        retry_in[w] # NULL /\ attempt[w].retry_count >= 0
            => retry_in[w] = SpecBackoffOf(attempt[w].retry_count)

\* ---- C4
\* C4: for every failed attempt, its successor's delay_until minus its own
\* failed_at lies in [5s, 300s].
C4_BoundedRetryDelay ==
    \A id \in DOMAIN attempts :
        attempts[id].failed_at # NULL /\ attempts[id].retry_count >= 0 =>
            \A j \in Successors(attempts, id) :
                /\ attempts[j].delay_until - attempts[id].failed_at >= MINIMUM_RETRY_DELAY
                /\ attempts[j].delay_until - attempts[id].failed_at <= MAXIMUM_RETRY_DELAY

\* ---- C5
\* C5: a store failure inside an iteration makes the worker roll back, sleep
\* and start the next iteration; the process never ends because of it.
C5_StoreFailureKeepsWorkerRunning ==
    \A w \in Workers : pc[w] # "exited"

\* ---- C6
\* The event row the INSERT of call c wrote is in the store.
WroteEvent(c) ==
    /\ event[c] # NoEvent
    /\ \E i \in DOMAIN events :
         SameKey(events[i], event[c].application_id, event[c].event_id)

\* C6: when an ingest call returns an error, no event row written by that
\* call is committed.
C6_FailedIngestLeavesNoEvent ==
    \A c \in Calls :
        ipc[c] = "done" /\ result[c] # "Created" => ~WroteEvent(c)

\* ---- C7
\* Every version of a row: the committed one and those pending in a tx.
RowVersions ==
    {attempts[id] : id \in DOMAIN attempts}
    \cup UNION {{tx[w].attempts[id] : id \in DOMAIN tx[w].attempts} : w \in Workers}

\* C7: succeeded_at and failed_at of an attempt are never both non-null.
C7_AtMostOneTerminalState ==
    \A row \in RowVersions : ~(row.succeeded_at # NULL /\ row.failed_at # NULL)

\* One attempt succeeded and another failed, with a crashed worker around.
C7_Witness ==
    /\ \E id \in DOMAIN attempts : attempts[id].succeeded_at # NULL
    /\ \E id \in DOMAIN attempts : attempts[id].failed_at # NULL
    /\ \E w \in Workers : pc[w] = "crashed" /\ attempt[w] # NoAttempt

\* ---- C9
\* The call read its whole body: it got as far as the match.
Checked(c) == "labels" \in DOMAIN body[c]

ContentTypeRegistered(b) == b.payload_content_type \in RegisteredContentTypes
PayloadDecodes(b) == base64_decode(b.payload).ok
MetadataAbsentOrObject(b) == b.metadata \in {"absent", "object"}
LabelsIsObject(b) == b.labels = "object"
AllFourPass(b) ==
    /\ ContentTypeRegistered(b)
    /\ PayloadDecodes(b)
    /\ MetadataAbsentOrObject(b)
    /\ LabelsIsObject(b)

\* C9: with a valid secret, ingest returns the error of the first failing
\* check in the order content type, base64, metadata, labels, and inserts
\* the event only when all four pass.
C9_ValidationTieBreak ==
    \A c \in Calls :
        /\ Checked(c) /\ ipc[c] = "done" =>
             IF ~ContentTypeRegistered(body[c]) THEN result[c] = "EventInvalidPayloadContentType"
             ELSE IF ~PayloadDecodes(body[c]) THEN result[c] = "EventInvalidBase64Payload"
             ELSE IF ~MetadataAbsentOrObject(body[c]) THEN result[c] = "EventInvalidMetadata"
             ELSE IF ~LabelsIsObject(body[c]) THEN result[c] = "EventInvalidLabels"
             ELSE result[c] \in {"Created", "Conflict", "InternalServerError"}
        /\ event[c] # NoEvent => Checked(c) /\ AllFourPass(body[c])

\* A call whose payload, metadata and labels are all invalid has returned
\* the base64 error, and another call has inserted its event.
C9_Witness ==
    \E c \in Calls : \E d \in Calls \ {c} :
        /\ ipc[c] = "done" /\ Checked(c)
        /\ ContentTypeRegistered(body[c])
        /\ ~PayloadDecodes(body[c])
        /\ ~MetadataAbsentOrObject(body[c])
        /\ ~LabelsIsObject(body[c])
        /\ result[c] = "EventInvalidBase64Payload"
        /\ result[d] = "Created"

\* ---- C10
Keys == Applications \X EventIds
HasKey(c, k) == body[c].application_id = k[1] /\ body[c].event_id = k[2]
RowsOf(k) == {i \in DOMAIN events : SameKey(events[i], k[1], k[2])}

\* The calls whose INSERT of the key was executed by the store.
Inserting(k) == {c \in Calls : HasKey(c, k) /\ (event[c] # NoEvent \/ result[c] = "Conflict")}

OneRowPerKey ==
    \A k \in Keys :
        /\ Cardinality(RowsOf(k)) <= 1
        /\ Inserting(k) # {} =>
             /\ Cardinality(RowsOf(k)) = 1
             /\ Cardinality({c \in Inserting(k) : event[c] # NoEvent}) = 1
             /\ \A c \in Inserting(k) : event[c] = NoEvent => result[c] = "Conflict"

\* The call that gets the conflict changes nothing in the store.
ConflictChangesNothing ==
    \A c \in Calls :
        result[c] # "Conflict" /\ result'[c] = "Conflict" =>
            events' = events /\ secrets' = secrets

HeldAttempt(w) == attempt[w].request_attempt__id

\* The step in which a process holding an attempt is killed leaves the
\* store as it was before the claim: no write of the iteration is visible,
\* the row is unlocked and still eligible.
CrashRollsBack ==
    \A w \in Workers :
        InFlight(w) /\ pc'[w] = "crashed" =>
            LET id == HeldAttempt(w)
            IN /\ attempts' = attempts
               /\ responses' = responses
               /\ attempts'[id].picked_at = NULL
               /\ attempts'[id].worker_id = NULL
               /\ attempts'[id].worker_version = NULL
               /\ attempts'[id].response__id = NULL
               /\ attempts'[id].succeeded_at = NULL
               /\ attempts'[id].failed_at = NULL
               /\ Successors(attempts', id) = {}
               /\ Eligible(attempts'[id])
               /\ \A v \in Workers : id \notin tx'[v].locks

\* The attempt was held by a process that was killed.
Orphaned(id) == \E w \in Workers : pc[w] = "crashed" /\ HeldAttempt(w) = id

\* The attempt is held again by a running worker, or a later claim of it
\* was committed.
Reclaimed(id) ==
    \/ \E v \in Workers : InFlight(v) /\ HeldAttempt(v) = id
    \/ id \in DOMAIN attempts /\ Terminal(attempts[id])

\* C8: a process killed between claim and commit leaves none of its writes
\* visible and the attempt as it was, eligible; while some worker keeps
\* running the attempt is eventually claimed again.
C8_CrashRecovery ==
    /\ [][CrashRollsBack]_vars
    /\ \A id \in AttemptIds :
         Orphaned(id) ~> (Reclaimed(id) \/ \A w \in Workers : Dead(w))

\* An attempt whose holder was killed is held by another worker, with
\* nothing of the killed iteration in the store.
C8_Witness ==
    \E w \in Workers : \E v \in Workers \ {w} :
        /\ pc[w] = "crashed"
        /\ HeldAttempt(w) # NULL
        /\ InFlight(v)
        /\ HeldAttempt(v) = HeldAttempt(w)
        /\ responses = <<>>

\* ---- C11
\* The body names no live secret of its application: the token is unknown,
\* belongs to another application, or is soft-deleted.
UnknownSecret(b) ==
    ~ /\ b.application_secret \in DOMAIN secrets
      /\ secrets[b.application_secret].application__id = b.application_id
      /\ secrets[b.application_secret].deleted_at = NULL

ValidationErrors == {"EventInvalidPayloadContentType", "EventInvalidBase64Payload",
                     "EventInvalidMetadata", "EventInvalidLabels"}

\* The secret lookup of a call whose secret is unknown ends the call.
UnknownSecretEndsCall(c) ==
    (ipc[c] = "secret" /\ ipc'[c] # "secret" /\ UnknownSecret(body[c]))
        => /\ ipc'[c] = "done"
           /\ IngestStoreFail(c) \/ result'[c] = "Forbidden"
           /\ result'[c] \notin ValidationErrors \cup {"Created", "Conflict"}
           /\ events' = events
           /\ event'[c] = NoEvent
           /\ body'[c] = body[c]

\* C11: a call whose (application_id, application_secret) matches no secret
\* row with deleted_at null fails with Forbidden at the lookup, before any
\* field of the body is validated, and writes no event: no validation error
\* of the same body is ever returned in its place.
C11_UnknownSecretRejectedFirst ==
    /\ [][\A c \in Calls : UnknownSecretEndsCall(c)]_vars
    /\ [](\A c \in Calls :
            (ipc[c] = "done" /\ result[c] = "Forbidden")
                => ~Checked(c) /\ ~WroteEvent(c) /\ event[c] = NoEvent)

\* C11 witness: a call with a soft-deleted secret and a call with a token
\* that is no secret of its application have both been refused.
C11_Witness ==
    \E c \in Calls : \E d \in Calls :
        /\ c # d
        /\ result[c] = "Forbidden" /\ result[d] = "Forbidden"
        /\ body[c].application_secret = 3 /\ body[c].application_id = 1
        /\ body[d].application_secret \in {2, 4} /\ body[d].application_id = 1

\* ---- C12
\* The iteration of w has stored its response and written its outcome.
Completing(w) == pc[w] = "commit" /\ attempt[w] # NoAttempt

\* What the transaction of w holds when the iteration is about to commit:
\* the one response row of the call, the attempt pointing at it, and for a
\* call that did not succeed the failure and the retry row.
OutcomeIsData(w) ==
    LET id == attempt[w].request_attempt__id
        row == RowSeenBy(w, id)
    IN /\ DOMAIN tx[w].responses = {response_id[w]}
       /\ tx[w].responses[response_id[w]] = response[w]
       /\ response[w].response_error__name # NoError => response[w].http_code = NULL
       /\ row.response__id = response_id[w]
       /\ ~is_success(response[w]) =>
             /\ row.failed_at # NULL
             /\ \E j \in DOMAIN tx[w].attempts : /\ j # id
                                                 /\ tx[w].attempts[j].event__id = row.event__id
                                                 /\ Eligible([tx[w].attempts[j] EXCEPT !.delay_until = NULL])

\* C12: whatever the HTTP call returns, the worker does not terminate on it
\* and does not abandon the iteration: the iteration stores one response row
\* (error kind with null http_code when there was no status), points the
\* attempt at it, and for a non-success marks the attempt failed and inserts
\* the retry in the same transaction.
C12_RemoteFailureIsData ==
    /\ \A w \in Workers : pc[w] # "panicked"
    /\ \A w \in Workers : Completing(w) => OutcomeIsData(w)

\* ---- C13
\* The committed row id is pending and due at the store clock.
DueNow(id) ==
    /\ attempts[id].succeeded_at = NULL
    /\ attempts[id].failed_at = NULL
    /\ attempts[id].delay_until # NULL => attempts[id].delay_until <= now

\* The rows the claim query of w could return: due and not locked by a peer.
Claimable(w) ==
    {id \in DOMAIN attempts : DueNow(id) /\ \A v \in Workers \ {w} : id \notin tx[v].locks}

\* A claim of w returns one of the oldest rows it could return and locks it.
ClaimsOldestDue(w) ==
    (pc[w] = "select" /\ pc'[w] = "pick")
        => LET id == attempt'[w].request_attempt__id
           IN /\ id \in Claimable(w)
              /\ \A other \in Claimable(w) :
                    attempts[id].created_at <= attempts[other].created_at
              /\ attempt'[w].created_at = attempts[id].created_at
              /\ tx'[w].locks = tx[w].locks \cup {id}

\* No version of a row, committed or pending, is picked before its due date.
NeverPickedEarly ==
    \A row \in RowVersions :
        (row.picked_at # NULL /\ row.delay_until # NULL) => row.delay_until <= row.picked_at

\* C13: every claim returns an attempt that is eligible at that moment and
\* has the smallest created_at among the eligible attempts no peer has
\* locked; no attempt is picked before its delay_until, and of two eligible
\* attempts a worker that is alone picks the older first.
C13_SelectionRule ==
    /\ [][\A w \in Workers : ClaimsOldestDue(w)]_vars
    /\ []NeverPickedEarly

\* C13 witness: a worker has claimed an attempt while a younger one, a
\* retry whose delay has passed, was claimable too.
C13_Witness ==
    \E w \in Workers :
        /\ pc[w] = "pick"
        /\ \E other \in Claimable(w) :
              /\ attempts[other].created_at > attempt[w].created_at
              /\ attempts[other].delay_until > 1

\* ---- C14
\* The response row a committed attempt points at.
ResponseOf(row) == responses[row.response__id]

\* A response without error kind whose status is in [200, 300).
Delivered(r) == r.response_error__name = NoError /\ r.http_code \in 200..299

\* C14: every terminal attempt has succeeded_at set exactly when its
\* recorded response has no error kind and an http_code in [200, 300), and
\* failed_at set otherwise.
C14_OutcomeMatchesResponse ==
    \A id \in DOMAIN attempts :
        Terminal(attempts[id]) =>
            /\ attempts[id].response__id \in DOMAIN responses
            /\ attempts[id].succeeded_at # NULL <=> Delivered(ResponseOf(attempts[id]))
            /\ attempts[id].failed_at # NULL <=> ~Delivered(ResponseOf(attempts[id]))

\* C14 witness: an attempt answered with status 299, the upper edge of the
\* success range, is committed as succeeded.
C14_Witness ==
    \E id \in DOMAIN attempts :
        /\ attempts[id].succeeded_at # NULL
        /\ attempts[id].response__id \in DOMAIN responses
        /\ ResponseOf(attempts[id]).http_code = 299

\* ---- C15
\* The row carries the pick of worker w.
PickedBy(row, w) ==
    /\ row.picked_at # NULL
    /\ row.worker_id = w
    /\ row.worker_version = WorkerVersion(w)

\* Every committed terminal row carries the pick of some worker, made no
\* later than its outcome.
TerminalRowsArePicked ==
    \A id \in DOMAIN attempts :
        Terminal(attempts[id]) =>
            /\ \E w \in Workers : PickedBy(attempts[id], w)
            /\ attempts[id].picked_at <= Max(attempts[id].succeeded_at, attempts[id].failed_at)

\* The rows a commit of w makes terminal carry the pick of w.
CommitterIsPicker(w) ==
    (pc[w] = "commit" /\ pc'[w] = "begin")
        => \A id \in DOMAIN attempts' :
              (Terminal(attempts'[id]) /\ (id \in DOMAIN attempts => ~Terminal(attempts[id])))
                  => PickedBy(attempts'[id], w)

\* C15: every terminal attempt has a non-null picked_at, and its worker_id
\* and worker_version are those of the worker that committed the outcome.
C15_PickedBeforeTerminal ==
    /\ []TerminalRowsArePicked
    /\ [][\A w \in Workers : CommitterIsPicker(w)]_vars

\* C15 witness: each of two workers has committed the outcome of an attempt.
C15_Witness ==
    \E id \in DOMAIN attempts : \E other \in DOMAIN attempts :
        /\ Terminal(attempts[id]) /\ attempts[id].worker_id = 1
        /\ Terminal(attempts[other]) /\ attempts[other].worker_id = 2

\* ---- C16
\* The worker has computed the delay of the retry of its attempt.
Scheduled(w) == retry_in[w] # NULL /\ attempt[w] # NoAttempt

\* C16: over the retry counts n >= 0 the delay the worker computes is
\* non-decreasing in n (the delay for n is not below the delay for n - 1)
\* and is exactly MAXIMUM_RETRY_DELAY = 300 s for every n >= 60.
C16_BackoffShape ==
    \A w \in Workers :
        Scheduled(w) =>
            LET n == attempt[w].retry_count
            IN /\ n >= 1 => RetryIn(n - 1) <= retry_in[w]
               /\ n >= 60 => retry_in[w] = 300

\* C16 witness: the delay of a retry with count 60, the first at the
\* ceiling, has been computed.
C16_Witness ==
    \E w \in Workers :
        Scheduled(w) /\ attempt[w].retry_count = 60 /\ retry_in[w] = 300

\* ---- C17
\* C17: when the claim query returns no row the worker commits first and
\* sleeps afterwards: a worker in its polling sleep has no open transaction.
C17_CommitBeforeSleep ==
    \A w \in Workers : pc[w] = "sleep" => ~tx[w].open

\* ---- C18
\* C18: for every retry_count from 0 to 32767 the retry of a failing attempt
\* gets retry_count + 1, a non-negative count, without overflow, without a
\* wrap to a negative count and without the worker aborting.
C18_NoRetryCap ==
    \A w \in Workers :
        /\ pc[w] # "panicked"
        /\ next_retry_count[w] # NULL =>
              /\ next_retry_count[w] = attempt[w].retry_count + 1
              /\ next_retry_count[w] >= 0
              /\ \E id \in DOMAIN tx[w].attempts :
                    /\ id # attempt[w].request_attempt__id
                    /\ tx[w].attempts[id].retry_count = attempt[w].retry_count + 1

\* ---- C19
\* A committed terminal row is out of every worker's hands: not locked, not
\* written in an open transaction, not the attempt of a running iteration.
TerminalRowsUntouched ==
    \A id \in DOMAIN attempts :
        Terminal(attempts[id]) =>
            \A w \in Workers :
                /\ id \notin tx[w].locks
                /\ id \notin DOMAIN tx[w].attempts
                /\ InFlight(w) => attempt[w].request_attempt__id # id

\* A committed terminal row keeps every field in every step.
TerminalRowsStay ==
    \A id \in DOMAIN attempts :
        Terminal(attempts[id]) => (id \in DOMAIN attempts' /\ attempts'[id] = attempts[id])

\* A committed failure is continued by another row of the same delivery.
FailureContinuesInNewRow ==
    \A id \in DOMAIN attempts :
        attempts[id].failed_at # NULL =>
            \E j \in DOMAIN attempts \ {id} :
                /\ attempts[j].event__id = attempts[id].event__id
                /\ attempts[j].subscription__id = attempts[id].subscription__id
                /\ attempts[j].created_at >= attempts[id].failed_at

\* C19: once succeeded_at or failed_at of an attempt is committed, no worker
\* claims the row again and none of its fields changes; a failed delivery
\* goes on in a new attempt row only.
C19_TerminalIsAbsorbing ==
    /\ [](TerminalRowsUntouched /\ FailureContinuesInNewRow)
    /\ [][TerminalRowsStay]_vars

\* C19 witness: an attempt is committed as failed and a worker holds the
\* new row that continues its delivery.
C19_Witness ==
    \E id \in DOMAIN attempts :
        /\ attempts[id].failed_at # NULL
        /\ \E w \in Workers : \E j \in tx[w].locks :
              /\ j # id
              /\ attempts[j].event__id = attempts[id].event__id
              /\ pc[w] = "mark"

\* ---- C20
\* The attempt exists and has no outcome.
Pending(id) == id \in DOMAIN attempts /\ ~Terminal(attempts[id])

\* The attempt is committed with its outcome.
Settled(id) == id \in DOMAIN attempts /\ Terminal(attempts[id])

UsableSecret(row) ==
    /\ row.application_secret__token \in DOMAIN secrets
    /\ secrets[row.application_secret__token].application__id = row.application__id
    /\ secrets[row.application_secret__token].deleted_at = NULL

\* C21: at the moment an event row is inserted, its
\* application_secret__token names a secret of the event's application
\* whose deleted_at is null, also when the secret is revoked between the
\* lookup and the insert.
C21_SecretValidAtInsert ==
    [][\A i \in DOMAIN events' \ DOMAIN events : UsableSecret(events'[i])]_vars

\* ---- C22
\* The committed attempts that point at the committed response rid.
ReferencesTo(rid) == {id \in DOMAIN attempts : attempts[id].response__id = rid}

\* C22: in every committed state each terminal attempt has a non-null
\* response__id that names one response row, each non-terminal attempt has
\* a null response__id, no response row is referenced by two attempts and
\* no committed response row is unreferenced, also when a crash makes the
\* call of an attempt happen more than once.
C22_OneResponsePerCompletedAttempt ==
    /\ \A id \in DOMAIN attempts :
          IF Terminal(attempts[id])
          THEN attempts[id].response__id # NULL /\ attempts[id].response__id \in DOMAIN responses
          ELSE attempts[id].response__id = NULL
    /\ \A rid \in DOMAIN responses : Cardinality(ReferencesTo(rid)) = 1

\* C22 witness: an attempt a crashed worker had claimed is committed with
\* its outcome by a peer, next to another completed attempt, each with its
\* own response row.
C22_Witness ==
    /\ \E w \in Workers :
          /\ pc[w] = "crashed"
          /\ HeldAttempt(w) \in DOMAIN attempts
          /\ Terminal(attempts[HeldAttempt(w)])
    /\ Cardinality(DOMAIN responses) >= 2

====
